---- MODULE Spec2Model ----
(***************************************************************************)
(* LoyaltyBlocks: multi-tenant customer database.                          *)
(*                                                                         *)
(* The model covers the persistence layer (organizations, settings,        *)
(* customers, users, with the unique constraints of the Prisma schema),    *)
(* the phone formatter and availability checker, and the request handlers  *)
(* that write to storage: public registration, admin create, customer      *)
(* detail / edit / delete and the identity-created webhook.  A handler is  *)
(* a sequence of steps, one per awaited storage call; concurrent requests  *)
(* interleave at those steps.  Storage calls fail by violating a           *)
(* constraint of the schema or by addressing a missing record; in          *)
(* SpecFaults the lookups of the availability checker and of the user      *)
(* count may also throw.                                                   *)
(***************************************************************************)
EXTENDS Integers, Sequences, FiniteSets, TLC

(* ------------------------------ bounds -------------------------------- *)

\* number of requests the environment issues in one behaviour
MaxRequests == 2

\* concurrent request slots
Procs == {1, 2}

(* ----------------------------- the inputs ----------------------------- *)

Slugs == {"acme", "beta"}

\* external identities, each with the payload of its user.created event
Identities == {"k1", "k2", "k3"}
NoIdentity == "anon"

\* (the identity provider issues one identity per e-mail address)
EventOf(k) ==
    CASE k = "k1" -> [email |-> "e1", slug |-> "beta"]
      [] k = "k2" -> [email |-> "e2", slug |-> "beta"]
      [] OTHER    -> [email |-> "e3", slug |-> "acme"]

PhoneParen == <<"(", "5", "5", "5", ")", " ", "1", "2", "3", "-", "4", "5", "6", "7">>
PhoneE164  == <<"+", "1", "5", "5", "5", "1", "2", "3", "4", "5", "6", "7">>
PhoneDots  == <<"2", "0", "2", ".", "5", "5", "5", ".", "0", "1", "2", "3">>
PhoneShort == <<"1", "2", "3">>

PhoneInputs == {PhoneParen, PhoneE164, PhoneDots, PhoneShort}

\* the country field of a request body: an ISO code or a display name
CountryInputs == {"US", "United States"}

Bodies == [phone : PhoneInputs, country : CountryInputs, consentGiven : BOOLEAN]

(* -------------------------- Phone Formatter --------------------------- *)

DigitChars == {"0", "1", "2", "3", "4", "5", "6", "7", "8", "9"}
SeparatorChars == {" ", "-", "(", ")", "."}

IsSeparator(c) == c \in SeparatorChars

AllDigits(s) == \A i \in 1..Len(s) : s[i] \in DigitChars

\* libphonenumber getCountries(), restricted to the two plans modelled here
ValidCountries == {"US", "GB"}

CallingCode(country) == IF country = "GB" THEN <<"4", "4">> ELSE <<"1">>
NationalPrefix(country) == IF country = "GB" THEN <<"0">> ELSE <<"1">>

HasPrefix(s, pre) == Len(s) >= Len(pre) /\ SubSeq(s, 1, Len(pre)) = pre
DropPrefix(s, pre) == SubSeq(s, Len(pre) + 1, Len(s))

\* the general national-number pattern of a country's numbering plan
NationalPattern(country, n) ==
    /\ AllDigits(n)
    /\ Len(n) = 10
    /\ IF country = "GB"
          THEN n[1] \in {"1", "2", "3", "5", "7", "8", "9"}
          ELSE n[1] \in {"2", "3", "4", "5", "6", "7", "8", "9"}

\* parsePhoneNumber(cleaned, country): an international number carries its
\* own calling code, a national one gets the default country's
ParsePhoneNumber(cleaned, country) ==
    IF Len(cleaned) > 0 /\ cleaned[1] = "+"
    THEN LET d == Tail(cleaned) IN
         IF HasPrefix(d, <<"4", "4">>)
         THEN [country |-> "GB", national |-> DropPrefix(d, <<"4", "4">>)]
         ELSE IF HasPrefix(d, <<"1">>)
         THEN [country |-> "US", national |-> DropPrefix(d, <<"1">>)]
         ELSE [country |-> "", national |-> d]
    ELSE IF HasPrefix(cleaned, NationalPrefix(country))
              /\ ~NationalPattern(country, cleaned)
    THEN [country |-> country, national |-> DropPrefix(cleaned, NationalPrefix(country))]
    ELSE [country |-> country, national |-> cleaned]

IsValidPhoneNumber(cleaned, country) ==
    LET n == ParsePhoneNumber(cleaned, country) IN
    n.country \in ValidCountries /\ NationalPattern(n.country, n.national)

\* (variant: the calling code left out)
FormatE164NoCallingCode(n) == <<"+">> \o n.national

FormatE164(n) == <<"+">> \o CallingCode(n.country) \o n.national

NoPhone == << >>

validateAndFormatPhone(phoneInput, countryCode) ==
    LET cleaned == SelectSeq(phoneInput, LAMBDA c : ~IsSeparator(c)) IN
    IF cleaned = << >>
    THEN [isValid |-> FALSE, formatted |-> NoPhone, error |-> "Phone number is required"]
    ELSE IF countryCode \notin ValidCountries
    THEN [isValid |-> FALSE, formatted |-> NoPhone, error |-> "Invalid country code"]
    ELSE IF ~IsValidPhoneNumber(cleaned, countryCode)
    THEN [isValid |-> FALSE, formatted |-> NoPhone,
          error |-> "Invalid phone number for the selected country"]
    ELSE [isValid |-> TRUE,
          formatted |-> FormatE164(ParsePhoneNumber(cleaned, countryCode)),
          error |-> ""]

\* (variant: every string passes the format test)
isE164FormatAny(phone) == TRUE

isE164Format(phone) ==
    /\ Len(phone) >= 3
    /\ Len(phone) <= 16
    /\ phone[1] = "+"
    /\ phone[2] \in DigitChars \ {"0"}
    /\ \A i \in 3..Len(phone) : phone[i] \in DigitChars

(* --------------------------- Form Validator --------------------------- *)

validateConsent(consentGiven) ==
    IF ~consentGiven THEN {"consentGiven"} ELSE {}

\* the names, birth date and optional fields of the enumerated bodies are
\* valid; the fields that vary are the consent flag, phone and country
validateCustomerRegistration(body) == validateConsent(body.consentGiven)

(* ------------------------------- state -------------------------------- *)

VARIABLES
    organizations,   \* slugs of the stored tenants
    settings,        \* slug -> stored Settings country, "" when no record
    customers,       \* stored customer records
    nextId,          \* next customer id the store hands out
    users,           \* stored internal users
    pc,              \* slot -> position in its handler
    arg,             \* slot -> request parameters
    loc,             \* slot -> handler locals
    out,             \* the response the last step returned, if it returned one
    started          \* requests issued so far

vars == <<organizations, settings, customers, nextId, users,
          pc, arg, loc, out, started>>

storage == <<organizations, settings, customers, nextId, users>>

DefaultCountry == "United States"

NoArg == [slug |-> "", clerk |-> NoIdentity, cid |-> 0,
          phone |-> NoPhone, country |-> "", consentGiven |-> FALSE,
          role |-> "", action |-> "", minimumRole |-> ""]

NoLoc == [orgCountry |-> "", createdOrg |-> FALSE, role |-> "",
          formatted |-> NoPhone, isFirst |-> FALSE, lookupFailed |-> FALSE]

\* a response: status, message, the customer it concerns, for a
\* registration the first-customer flag, the line the handler logs, and for
\* a settings request the country of the record returned; for a direct call
\* of a library function, the boolean it returned and whether it queried
\* the customers table, and the phone string it returned
Response(status, error) ==
    [status |-> status, error |-> error, ref |-> 0, first |-> FALSE, log |-> "",
     data |-> "", value |-> FALSE, queried |-> FALSE, phone |-> << >>]

NoResp == [op |-> "", status |-> 0, error |-> "", ref |-> 0, first |-> FALSE,
           log |-> "", data |-> "", value |-> FALSE, queried |-> FALSE,
           phone |-> << >>]

Emit(name, r) == [op |-> name, status |-> r.status, error |-> r.error,
                  ref |-> r.ref, first |-> r.first, log |-> r.log, data |-> r.data,
                  value |-> r.value, queried |-> r.queried, phone |-> r.phone]

(* ------------------------- persistence layer -------------------------- *)

\* (variant: the customers table without its unique constraint)
CustomerUniqueViolationOff(org, phone, selfId) == FALSE

\* @@unique([organizationId, phone]) of model Customer
CustomerUniqueViolation(org, phone, selfId) ==
    \E c \in customers : c.org = org /\ c.phone = phone /\ c.id # selfId

\* (variant: the users table without its unique constraints)
UserUniqueViolationOff(clerk, org, email) == FALSE

\* clerkUserId @unique and @@unique([organizationId, email]) of model User
UserUniqueViolation(clerk, org, email) ==
    \E u \in users : u.clerk = clerk \/ (u.org = org /\ u.email = email)

CustomerById(cid) == {c \in customers : c.id = cid}

UserByClerkId(clerk) == {u \in users : u.clerk = clerk}

\* (variant: the lookup without its organizationId filter)
FindCustomerByPhoneAnyTenant(org, phone, excludeId) ==
    LET hits == {c.id : c \in {d \in customers : d.phone = phone /\ d.id # excludeId}}
    IN IF hits = {} THEN 0 ELSE CHOOSE i \in hits : \A j \in hits : i <= j

\* (variant: the lookup without its id: {not: excludeCustomerId} filter)
FindCustomerByPhoneNoExclude(org, phone, excludeId) ==
    LET hits == {c.id : c \in {d \in customers : d.org = org /\ d.phone = phone}}
    IN IF hits = {} THEN 0 ELSE CHOOSE i \in hits : \A j \in hits : i <= j

\* the first customer a lookup on (tenant, phone) returns, 0 when none
FindCustomerByPhone(org, phone, excludeId) ==
    LET hits == {c.id : c \in {d \in customers :
                     d.org = org /\ d.phone = phone /\ d.id # excludeId}}
    IN IF hits = {} THEN 0 ELSE CHOOSE i \in hits : \A j \in hits : i <= j

(* --------------------- Phone Availability Checker --------------------- *)

\* (variant: a lookup that throws counts as "no customer found")
checkPhoneAvailabilityFailOpen(phone, org, excludeId, dbOk) ==
    IF ~isE164Format(phone)
    THEN [available |-> FALSE, message |-> "Phone number must be in E.164 format",
          found |-> 0, queried |-> FALSE, failed |-> FALSE]
    ELSE IF ~dbOk
    THEN [available |-> TRUE, message |-> "Phone number is available", found |-> 0,
          queried |-> TRUE, failed |-> TRUE]
    ELSE LET hit == FindCustomerByPhone(org, phone, excludeId) IN
         IF hit # 0
         THEN [available |-> FALSE, message |-> "Phone number already registered to",
               found |-> hit, queried |-> TRUE, failed |-> FALSE]
         ELSE [available |-> TRUE, message |-> "Phone number is available", found |-> 0,
               queried |-> TRUE, failed |-> FALSE]

\* queried tells whether db.customer.findFirst ran, failed whether it threw
\* (dbOk is false when the storage call throws)
checkPhoneAvailability(phone, org, excludeId, dbOk) ==
    IF ~isE164Format(phone)
    THEN [available |-> FALSE, message |-> "Phone number must be in E.164 format",
          found |-> 0, queried |-> FALSE, failed |-> FALSE]
    ELSE IF ~dbOk
    THEN [available |-> FALSE, message |-> "Error checking phone availability",
          found |-> 0, queried |-> TRUE, failed |-> TRUE]
    ELSE LET hit == FindCustomerByPhone(org, phone, excludeId) IN
         IF hit # 0
         THEN [available |-> FALSE, message |-> "Phone number already registered to",
               found |-> hit, queried |-> TRUE, failed |-> FALSE]
         ELSE [available |-> TRUE, message |-> "Phone number is available", found |-> 0,
               queried |-> TRUE, failed |-> FALSE]

\* (variant: the input accepted and passed on as it was typed)
validatePhoneAndCheckAvailabilityRaw(phoneInput, countryCode, org, excludeId, dbOk) ==
    [isValid |-> TRUE, formatted |-> phoneInput, error |-> "",
     available |-> "true", found |-> 0, queried |-> FALSE, failed |-> FALSE]

\* available is "undef" when the format step fails
validatePhoneAndCheckAvailability(phoneInput, countryCode, org, excludeId, dbOk) ==
    LET validation == validateAndFormatPhone(phoneInput, countryCode) IN
    IF ~validation.isValid \/ validation.formatted = NoPhone
    THEN [isValid |-> FALSE, formatted |-> NoPhone, error |-> validation.error,
          available |-> "undef", found |-> 0, queried |-> FALSE, failed |-> FALSE]
    ELSE LET availability == checkPhoneAvailability(validation.formatted, org,
                                                    excludeId, dbOk) IN
         [isValid |-> TRUE, formatted |-> validation.formatted,
          error |-> IF ~availability.available THEN availability.message ELSE "",
          available |-> IF availability.available THEN "true" ELSE "false",
          found |-> availability.found, queried |-> availability.queried,
          failed |-> availability.failed]

OrElse(a, b) == IF a # "" THEN a ELSE b

(* ------------------------------- Init --------------------------------- *)

\* A deployment's first store: tenant "beta" is seeded without a Settings
\* record (the schema makes the relation optional and the handlers create
\* the record lazily) and has no users; slug "acme" is unseen.
FreshStore ==
    /\ organizations = {"beta"}
    /\ settings = [s \in Slugs |-> ""]
    /\ customers = {}
    /\ nextId = 1
    /\ users = {}

\* The store four requests on FreshStore leave: a registration under "acme"
\* (it creates that tenant with default Settings), the user.created events
\* of k1 and k3 (the first users of "beta" and "acme"), and a registration
\* of "(555) 123-4567" with country US under "beta".
ProvisionedStore ==
    /\ organizations = {"acme", "beta"}
    /\ settings = [s \in Slugs |-> IF s = "acme" THEN DefaultCountry ELSE ""]
    /\ customers = {[id |-> 1, org |-> "beta", phone |-> PhoneE164,
                     consentGiven |-> TRUE, createdBy |-> NoIdentity,
                     updatedBy |-> NoIdentity]}
    /\ nextId = 2
    /\ users = {[clerk |-> "k1", org |-> "beta", email |-> "e1",
                 role |-> "SUPER_ADMIN", nth |-> 1],
                [clerk |-> "k3", org |-> "acme", email |-> "e3",
                 role |-> "SUPER_ADMIN", nth |-> 1]}

Init ==
    /\ FreshStore \/ ProvisionedStore
    /\ pc = [p \in Procs |-> "idle"]
    /\ arg = [p \in Procs |-> NoArg]
    /\ loc = [p \in Procs |-> NoLoc]
    /\ out = NoResp
    /\ started = 0

(* ------------------------- request plumbing --------------------------- *)

\* a request is taken by the first free slot
CanStart(p) ==
    /\ pc[p] = "idle"
    /\ \A q \in Procs : q < p => pc[q] # "idle"
    /\ started < MaxRequests

Begin == started' = started + 1

\* the handler in slot p suspends at its next storage call
Goto(p, label, a, l) ==
    /\ pc' = [pc EXCEPT ![p] = label]
    /\ arg' = [arg EXCEPT ![p] = a]
    /\ loc' = [loc EXCEPT ![p] = l]
    /\ out' = NoResp

\* the handler in slot p returns response r and the slot is free again
Finish(p, name, r) ==
    /\ pc' = [pc EXCEPT ![p] = "idle"]
    /\ arg' = [arg EXCEPT ![p] = NoArg]
    /\ loc' = [loc EXCEPT ![p] = NoLoc]
    /\ out' = Emit(name, r)

\* (variant: the tenant comparison left out)
BelongsToAnyOrganization(recordOrg, orgId) == TRUE

\* the handlers compare customer.organizationId with organization.id
BelongsToOrganization(recordOrg, orgId) == recordOrg = orgId

\* (variant: the role gate left out)
MayMutateCustomersAnyRole(role) == TRUE

\* the role gate of the create, edit and delete handlers
MayMutateCustomers(role) == role # "VIEWER"

\* (variant: every insert error reported as a generic failure)
CreateErrorResponseGeneric(code) == Response(500, "Failed to create customer record")

\* the catch block around db.customer.create
CreateErrorResponse(code) ==
    IF code = "P2002"
    THEN Response(409, "Phone number already registered")
    ELSE Response(500, "Failed to create customer record")

\* the catch block at the request boundary
InternalError == Response(500, "Internal server error")

\* (variant: the creating user not recorded)
NewCustomerAnonymous(id, org, phone, consent, by) ==
    [id |-> id, org |-> org, phone |-> phone, consentGiven |-> consent,
     createdBy |-> NoIdentity, updatedBy |-> NoIdentity]

\* the record db.customer.create stores
NewCustomer(id, org, phone, consent, by) ==
    [id |-> id, org |-> org, phone |-> phone, consentGiven |-> consent,
     createdBy |-> by, updatedBy |-> by]

(* ------------------------ public registration ------------------------- *)

\* request parsing, form validation and getOrganizationBySlug
RegisterStart(p, slug, body) ==
    /\ CanStart(p)
    /\ Begin
    /\ LET a == [NoArg EXCEPT !.slug = slug, !.phone = body.phone,
                              !.country = body.country,
                              !.consentGiven = body.consentGiven]
       IN IF validateCustomerRegistration(body) # {}
          THEN Finish(p, "register", Response(400, "Validation failed"))
          ELSE IF slug \in organizations
          THEN Goto(p, "reg_check", a, [NoLoc EXCEPT !.orgCountry = settings[slug]])
          ELSE Goto(p, "reg_createorg", a, NoLoc)
    /\ UNCHANGED storage

\* createOrganization: the tenant and its default Settings in one insert;
\* a slug taken meanwhile violates slug @unique and yields null
RegisterCreateOrg(p) ==
    /\ pc[p] = "reg_createorg"
    /\ LET slug == arg[p].slug IN
       IF slug \in organizations
       THEN /\ Finish(p, "register", Response(500, "Failed to create organization"))
            /\ UNCHANGED storage
       ELSE /\ organizations' = organizations \cup {slug}
            /\ settings' = [settings EXCEPT ![slug] = DefaultCountry]
            /\ Goto(p, "reg_check", arg[p],
                    [loc[p] EXCEPT !.orgCountry = DefaultCountry,
                                   !.createdOrg = TRUE, !.isFirst = TRUE])
            /\ UNCHANGED <<customers, nextId, users>>
    /\ UNCHANGED started

\* validatePhoneAndCheckAvailability with the tenant's country first
RegisterCheckPhone(p, dbOk) ==
    /\ pc[p] = "reg_check"
    /\ LET countryCode == OrElse(loc[p].orgCountry, OrElse(arg[p].country, DefaultCountry))
           v == validatePhoneAndCheckAvailability(arg[p].phone, countryCode,
                                                  arg[p].slug, 0, dbOk)
       IN IF ~v.isValid \/ v.available = "false"
          THEN Finish(p, "register", [Response(400, OrElse(v.error, "Invalid phone number"))
                             EXCEPT !.ref = v.found])
          ELSE Goto(p, "reg_insert", arg[p],
                    [loc[p] EXCEPT !.formatted = v.formatted, !.lookupFailed = v.failed])
    /\ UNCHANGED <<storage, started>>

\* db.customer.create with createdBy = null
RegisterInsert(p) ==
    /\ pc[p] = "reg_insert"
    /\ IF CustomerUniqueViolation(arg[p].slug, loc[p].formatted, 0)
       THEN /\ Finish(p, "register", CreateErrorResponse("P2002"))
            /\ UNCHANGED storage
       ELSE /\ customers' = customers \cup
                   {NewCustomer(nextId, arg[p].slug, loc[p].formatted,
                                arg[p].consentGiven, NoIdentity)}
            /\ nextId' = nextId + 1
            /\ Finish(p, "register", [Response(201, "") EXCEPT !.ref = nextId,
                                                                !.first = loc[p].isFirst])
            /\ UNCHANGED <<organizations, settings, users>>
    /\ UNCHANGED started

(* ------------------------- phone validation -------------------------- *)

\* POST validate-phone: the body carries phone and countryCode (both
\* present in the enumerated requests), then getOrganizationBySlug
ValidatePhoneStart(p, slug) ==
    /\ CanStart(p)
    /\ Begin
    /\ IF slug \notin organizations
       THEN Finish(p, "validate", Response(404, "Organization not found"))
       ELSE Goto(p, "vp_check", [NoArg EXCEPT !.slug = slug], NoLoc)
    /\ UNCHANGED storage

\* validatePhoneAndCheckAvailability on the body's phone, countryCode and
\* optional excludeCustomerId (0 when absent)
ValidatePhoneCheck(p, phone, countryCode, excludeId, dbOk) ==
    /\ pc[p] = "vp_check"
    /\ LET result == validatePhoneAndCheckAvailability(phone, countryCode,
                                                       arg[p].slug, excludeId, dbOk)
       IN IF result.isValid /\ result.available # "false"
          THEN Finish(p, "validate", Response(200, ""))
          ELSE Finish(p, "validate",
                      [Response(400, OrElse(result.error, "Phone validation failed"))
                          EXCEPT !.ref = result.found])
    /\ UNCHANGED <<storage, started>>

(* ------------------- authenticated customer handlers ------------------ *)

\* auth() and getOrganizationBySlug, as each of the four handlers opens
Authenticate(p, name, label, slug, clerk) ==
    IF clerk = NoIdentity
    THEN Finish(p, name, Response(401, "Unauthorized"))
    ELSE IF slug \notin organizations
    THEN Finish(p, name, Response(404, "Organization not found"))
    ELSE Goto(p, label, [NoArg EXCEPT !.slug = slug, !.clerk = clerk],
              [NoLoc EXCEPT !.orgCountry = settings[slug]])

\* getUserByClerkId and the tenant check on the internal user
UserAdmitted(p) ==
    \E u \in UserByClerkId(arg[p].clerk) : BelongsToOrganization(u.org, arg[p].slug)

RoleOf(clerk) == (CHOOSE u \in UserByClerkId(clerk) : TRUE).role

AdminCreateStart(p, slug, clerk) ==
    /\ CanStart(p)
    /\ Begin
    /\ Authenticate(p, "create", "ac_user", slug, clerk)
    /\ UNCHANGED storage

\* getUserByClerkId, the role gate and the form validation; the request
\* body is read here, where the handler first uses it
AdminCreateUser(p, body) ==
    /\ pc[p] = "ac_user"
    /\ IF ~UserAdmitted(p)
       THEN Finish(p, "create", Response(403, "Forbidden"))
       ELSE IF ~MayMutateCustomers(RoleOf(arg[p].clerk))
       THEN Finish(p, "create", Response(403, "Insufficient permissions to create customers"))
       ELSE IF validateCustomerRegistration(body) # {}
       THEN Finish(p, "create", Response(400, "Validation failed"))
       ELSE Goto(p, "ac_check",
                 [arg[p] EXCEPT !.phone = body.phone, !.country = body.country,
                                !.consentGiven = body.consentGiven],
                 loc[p])
    /\ UNCHANGED <<storage, started>>

\* validatePhoneAndCheckAvailability with the body's country first
AdminCreateCheckPhone(p, dbOk) ==
    /\ pc[p] = "ac_check"
    /\ LET countryCode == OrElse(arg[p].country, OrElse(loc[p].orgCountry, DefaultCountry))
           v == validatePhoneAndCheckAvailability(arg[p].phone, countryCode,
                                                  arg[p].slug, 0, dbOk)
       IN IF ~v.isValid \/ v.available = "false"
          THEN Finish(p, "create", [Response(400, OrElse(v.error, "Invalid phone number"))
                             EXCEPT !.ref = v.found])
          ELSE Goto(p, "ac_insert", arg[p],
                    [loc[p] EXCEPT !.formatted = v.formatted, !.lookupFailed = v.failed])
    /\ UNCHANGED <<storage, started>>

\* db.customer.create with createdBy = updatedBy = the internal user
AdminCreateInsert(p) ==
    /\ pc[p] = "ac_insert"
    /\ IF CustomerUniqueViolation(arg[p].slug, loc[p].formatted, 0)
       THEN /\ Finish(p, "create", CreateErrorResponse("P2002"))
            /\ UNCHANGED storage
       ELSE /\ customers' = customers \cup
                   {NewCustomer(nextId, arg[p].slug, loc[p].formatted,
                                arg[p].consentGiven, arg[p].clerk)}
            /\ nextId' = nextId + 1
            /\ Finish(p, "create", [Response(201, "") EXCEPT !.ref = nextId])
            /\ UNCHANGED <<organizations, settings, users>>
    /\ UNCHANGED started

(* ---- customer detail ---- *)

GetStart(p, slug, clerk) ==
    /\ CanStart(p)
    /\ Begin
    /\ Authenticate(p, "get", "g_user", slug, clerk)
    /\ UNCHANGED storage

GetUser(p) ==
    /\ pc[p] = "g_user"
    /\ IF ~UserAdmitted(p)
       THEN Finish(p, "get", Response(403, "Forbidden"))
       ELSE Goto(p, "g_fetch", arg[p], loc[p])
    /\ UNCHANGED <<storage, started>>

\* db.customer.findUnique on the id the path names, then the tenant check
GetFetch(p, cid) ==
    /\ pc[p] = "g_fetch"
    /\ IF CustomerById(cid) = {}
       THEN Finish(p, "get", Response(404, "Customer not found"))
       ELSE LET c == CHOOSE x \in CustomerById(cid) : TRUE IN
            IF ~BelongsToOrganization(c.org, arg[p].slug)
            THEN Finish(p, "get", [Response(403, "Forbidden") EXCEPT !.ref = cid])
            ELSE Finish(p, "get", [Response(200, "") EXCEPT !.ref = cid])
    /\ UNCHANGED <<storage, started>>

(* ---- customer edit ---- *)

PutStart(p, slug, clerk) ==
    /\ CanStart(p)
    /\ Begin
    /\ Authenticate(p, "put", "p_user", slug, clerk)
    /\ UNCHANGED storage

PutUser(p) ==
    /\ pc[p] = "p_user"
    /\ IF ~UserAdmitted(p)
       THEN Finish(p, "put", Response(403, "Forbidden"))
       ELSE IF ~MayMutateCustomers(RoleOf(arg[p].clerk))
       THEN Finish(p, "put", Response(403, "Insufficient permissions to edit customers"))
       ELSE Goto(p, "p_find", arg[p], loc[p])
    /\ UNCHANGED <<storage, started>>

\* db.customer.findUnique, the tenant check, the form validation and the
\* comparison of the body's phone with the stored one
PutFind(p, cid, body) ==
    /\ pc[p] = "p_find"
    /\ IF CustomerById(cid) = {}
       THEN Finish(p, "put", Response(404, "Customer not found"))
       ELSE LET existing == CHOOSE x \in CustomerById(cid) : TRUE IN
            IF ~BelongsToOrganization(existing.org, arg[p].slug)
            THEN Finish(p, "put", [Response(403, "Forbidden") EXCEPT !.ref = cid])
            ELSE IF validateCustomerRegistration(body) # {}
            THEN Finish(p, "put", Response(400, "Validation failed"))
            ELSE LET a == [arg[p] EXCEPT !.cid = cid, !.phone = body.phone,
                                         !.country = body.country,
                                         !.consentGiven = body.consentGiven]
                 IN IF body.phone # existing.phone
                    THEN Goto(p, "p_check", a, loc[p])
                    ELSE Goto(p, "p_update", a,
                              [loc[p] EXCEPT !.formatted = existing.phone])
    /\ UNCHANGED <<storage, started>>

\* validatePhoneAndCheckAvailability excluding the edited customer
PutCheckPhone(p, dbOk) ==
    /\ pc[p] = "p_check"
    /\ LET countryCode == OrElse(arg[p].country, OrElse(loc[p].orgCountry, DefaultCountry))
           v == validatePhoneAndCheckAvailability(arg[p].phone, countryCode,
                                                  arg[p].slug, arg[p].cid, dbOk)
       IN IF ~v.isValid \/ v.available = "false"
          THEN Finish(p, "put", [Response(400, OrElse(v.error, "Invalid phone number"))
                             EXCEPT !.ref = v.found])
          ELSE Goto(p, "p_update", arg[p],
                    [loc[p] EXCEPT !.formatted = v.formatted, !.lookupFailed = v.failed])
    /\ UNCHANGED <<storage, started>>

\* db.customer.update; a missing record or a constraint violation throws
\* and is caught at the request boundary
PutUpdate(p) ==
    /\ pc[p] = "p_update"
    /\ IF CustomerById(arg[p].cid) = {}
          \/ CustomerUniqueViolation(arg[p].slug, loc[p].formatted, arg[p].cid)
       THEN /\ Finish(p, "put", InternalError)
            /\ UNCHANGED storage
       ELSE /\ customers' =
                  {IF c.id = arg[p].cid
                   THEN [c EXCEPT !.phone = loc[p].formatted,
                                  !.consentGiven = arg[p].consentGiven,
                                  !.updatedBy = arg[p].clerk]
                   ELSE c : c \in customers}
            /\ Finish(p, "put", [Response(200, "") EXCEPT !.ref = arg[p].cid])
            /\ UNCHANGED <<organizations, settings, nextId, users>>
    /\ UNCHANGED started

(* ---- customer delete ---- *)

DeleteStart(p, slug, clerk) ==
    /\ CanStart(p)
    /\ Begin
    /\ Authenticate(p, "delete", "d_user", slug, clerk)
    /\ UNCHANGED storage

DeleteUser(p) ==
    /\ pc[p] = "d_user"
    /\ IF ~UserAdmitted(p)
       THEN Finish(p, "delete", Response(403, "Forbidden"))
       ELSE IF ~MayMutateCustomers(RoleOf(arg[p].clerk))
       THEN Finish(p, "delete", Response(403, "Insufficient permissions to delete customers"))
       ELSE Goto(p, "d_find", arg[p], loc[p])
    /\ UNCHANGED <<storage, started>>

DeleteFind(p, cid) ==
    /\ pc[p] = "d_find"
    /\ IF CustomerById(cid) = {}
       THEN Finish(p, "delete", Response(404, "Customer not found"))
       ELSE LET c == CHOOSE x \in CustomerById(cid) : TRUE IN
            IF ~BelongsToOrganization(c.org, arg[p].slug)
            THEN Finish(p, "delete", [Response(403, "Forbidden") EXCEPT !.ref = cid])
            ELSE Goto(p, "d_delete", [arg[p] EXCEPT !.cid = cid], loc[p])
    /\ UNCHANGED <<storage, started>>

\* db.customer.delete; a missing record throws
DeleteDelete(p) ==
    /\ pc[p] = "d_delete"
    /\ IF CustomerById(arg[p].cid) = {}
       THEN /\ Finish(p, "delete", InternalError)
            /\ UNCHANGED storage
       ELSE /\ customers' = {c \in customers : c.id # arg[p].cid}
            /\ Finish(p, "delete", [Response(200, "") EXCEPT !.ref = arg[p].cid])
            /\ UNCHANGED <<organizations, settings, nextId, users>>
    /\ UNCHANGED started

(* ------------------------- tenant settings ---------------------------- *)

\* the Country Registry, restricted to the two numbering plans modelled
COUNTRIES == {[code |-> "US", name |-> "United States"],
              [code |-> "GB", name |-> "United Kingdom"]}

\* the country field of a settings update: absent, registered, unregistered
SettingsCountryInputs == {"", "United Kingdom", "Narnia"}

\* (variant: the update without its registry lookup)
IsRegisteredCountryAny(country) == TRUE

\* COUNTRIES.find((c) => c.name === country)
IsRegisteredCountry(country) == \E c \in COUNTRIES : c.name = country

\* (variant: a second Settings record of a tenant replaces the first)
SettingsUniqueViolationOff(org) == FALSE

\* organizationId @unique of model OrganizationSettings
SettingsUniqueViolation(org) == settings[org] # ""

\* (variant: the settings gate as wide as the customer gate)
MayManageSettingsManagers(role) == role # "VIEWER"

\* the role gate of the settings handlers
MayManageSettings(role) == role = "SUPER_ADMIN"

SettingsGetStart(p, slug, clerk) ==
    /\ CanStart(p)
    /\ Begin
    /\ Authenticate(p, "settings_get", "sg_user", slug, clerk)
    /\ UNCHANGED storage

SettingsGetUser(p) ==
    /\ pc[p] = "sg_user"
    /\ IF ~UserAdmitted(p)
       THEN Finish(p, "settings_get", Response(403, "Forbidden"))
       ELSE IF ~MayManageSettings(RoleOf(arg[p].clerk))
       THEN Finish(p, "settings_get", Response(403, "Only super admins can access settings"))
       ELSE Goto(p, "sg_find", arg[p], loc[p])
    /\ UNCHANGED <<storage, started>>

\* db.organizationSettings.findUnique
SettingsGetFind(p) ==
    /\ pc[p] = "sg_find"
    /\ IF settings[arg[p].slug] # ""
       THEN Finish(p, "settings_get",
                   [Response(200, "") EXCEPT !.data = settings[arg[p].slug]])
       ELSE Goto(p, "sg_create", arg[p], loc[p])
    /\ UNCHANGED <<storage, started>>

\* db.organizationSettings.create with the default country; a record
\* created meanwhile violates the constraint and the error is caught at
\* the request boundary
SettingsGetCreate(p) ==
    /\ pc[p] = "sg_create"
    /\ IF SettingsUniqueViolation(arg[p].slug)
       THEN /\ Finish(p, "settings_get", InternalError)
            /\ UNCHANGED storage
       ELSE /\ settings' = [settings EXCEPT ![arg[p].slug] = DefaultCountry]
            /\ Finish(p, "settings_get", [Response(200, "") EXCEPT !.data = DefaultCountry])
            /\ UNCHANGED <<organizations, customers, nextId, users>>
    /\ UNCHANGED started

SettingsPutStart(p, slug, clerk) ==
    /\ CanStart(p)
    /\ Begin
    /\ Authenticate(p, "settings_put", "sp_user", slug, clerk)
    /\ UNCHANGED storage

\* getUserByClerkId, the role gate and the validation of body.country
SettingsPutUser(p, country) ==
    /\ pc[p] = "sp_user"
    /\ IF ~UserAdmitted(p)
       THEN Finish(p, "settings_put", Response(403, "Forbidden"))
       ELSE IF ~MayManageSettings(RoleOf(arg[p].clerk))
       THEN Finish(p, "settings_put", Response(403, "Only super admins can update settings"))
       ELSE IF country = ""
       THEN Finish(p, "settings_put", Response(400, "Country is required"))
       ELSE IF ~IsRegisteredCountry(country)
       THEN Finish(p, "settings_put", Response(400, "Invalid country selected"))
       ELSE Goto(p, "sp_upsert", [arg[p] EXCEPT !.country = country], loc[p])
    /\ UNCHANGED <<storage, started>>

\* db.organizationSettings.upsert on the unique organizationId
SettingsPutUpsert(p) ==
    /\ pc[p] = "sp_upsert"
    /\ settings' = [settings EXCEPT ![arg[p].slug] = arg[p].country]
    /\ Finish(p, "settings_put", [Response(200, "") EXCEPT !.data = arg[p].country])
    /\ UNCHANGED <<organizations, customers, nextId, users, started>>

(* ---------------------- identity-created webhook ---------------------- *)

UsersOfOrganization(org) == {u \in users : u.org = org}

\* isFirstUserInOrganization: db.user.count on the tenant is zero; a count
\* that throws is caught and answered false
isFirstUserInOrganization(org, dbOk) ==
    IF ~dbOk THEN FALSE ELSE Cardinality(UsersOfOrganization(org)) = 0

\* the role the webhook assigns
ProvisionedRole(isFirstUser) == IF isFirstUser THEN "SUPER_ADMIN" ELSE "VIEWER"

\* signature verification and db.organization.findUnique on the slug hint
WebhookStart(p, k, verified) ==
    /\ CanStart(p)
    /\ Begin
    /\ IF ~verified
       THEN Finish(p, "webhook", Response(400, "Invalid signature"))
       ELSE IF EventOf(k).slug \notin organizations
       THEN Finish(p, "webhook", Response(200, "received"))
       ELSE Goto(p, "w_count", [NoArg EXCEPT !.slug = EventOf(k).slug, !.clerk = k], NoLoc)
    /\ UNCHANGED storage

WebhookCount(p, dbOk) ==
    /\ pc[p] = "w_count"
    /\ LET isFirstUser == isFirstUserInOrganization(arg[p].slug, dbOk) IN
       Goto(p, "w_create", arg[p],
            [loc[p] EXCEPT !.isFirst = isFirstUser, !.role = ProvisionedRole(isFirstUser)])
    /\ UNCHANGED <<storage, started>>

\* db.user.create; a constraint violation is logged and swallowed
WebhookCreate(p) ==
    /\ pc[p] = "w_create"
    /\ LET k == arg[p].clerk
           org == arg[p].slug
       IN IF UserUniqueViolation(k, org, EventOf(k).email)
          THEN /\ UNCHANGED users
               /\ Finish(p, "webhook", [Response(200, "received")
                                           EXCEPT !.log = "Error creating internal user"])
          ELSE /\ users' = users \cup
                      {[clerk |-> k, org |-> org, email |-> EventOf(k).email,
                        role |-> loc[p].role,
                        nth |-> Cardinality(UsersOfOrganization(org)) + 1]}
               /\ Finish(p, "webhook", [Response(200, "received")
                                           EXCEPT !.log = "Created internal user"])
    /\ UNCHANGED <<organizations, settings, customers, nextId, started>>

(* -------------------------------- Next -------------------------------- *)

\* the ids a path can name: every request inserts at most one customer
CustomerIds == 1..(MaxRequests + 1)

Callers == Identities \cup {NoIdentity}

Next ==
    \/ \E p \in Procs, slug \in Slugs, body \in Bodies : RegisterStart(p, slug, body)
    \/ \E p \in Procs : RegisterCreateOrg(p)
    \/ \E p \in Procs : RegisterCheckPhone(p, TRUE)
    \/ \E p \in Procs : RegisterInsert(p)
    \/ \E p \in Procs, slug \in Slugs : ValidatePhoneStart(p, slug)
    \/ \E p \in Procs, phone \in PhoneInputs, countryCode \in CountryInputs,
             excludeId \in {0} \cup CustomerIds :
          ValidatePhoneCheck(p, phone, countryCode, excludeId, TRUE)
    \/ \E p \in Procs, slug \in Slugs, clerk \in Callers : AdminCreateStart(p, slug, clerk)
    \/ \E p \in Procs, body \in Bodies : AdminCreateUser(p, body)
    \/ \E p \in Procs : AdminCreateCheckPhone(p, TRUE)
    \/ \E p \in Procs : AdminCreateInsert(p)
    \/ \E p \in Procs, slug \in Slugs, clerk \in Callers : GetStart(p, slug, clerk)
    \/ \E p \in Procs : GetUser(p)
    \/ \E p \in Procs, cid \in CustomerIds : GetFetch(p, cid)
    \/ \E p \in Procs, slug \in Slugs, clerk \in Callers : PutStart(p, slug, clerk)
    \/ \E p \in Procs : PutUser(p)
    \/ \E p \in Procs, cid \in CustomerIds, body \in Bodies : PutFind(p, cid, body)
    \/ \E p \in Procs : PutCheckPhone(p, TRUE)
    \/ \E p \in Procs : PutUpdate(p)
    \/ \E p \in Procs, slug \in Slugs, clerk \in Callers : DeleteStart(p, slug, clerk)
    \/ \E p \in Procs : DeleteUser(p)
    \/ \E p \in Procs, cid \in CustomerIds : DeleteFind(p, cid)
    \/ \E p \in Procs : DeleteDelete(p)
    \/ \E p \in Procs, k \in Identities, verified \in BOOLEAN : WebhookStart(p, k, verified)
    \/ \E p \in Procs : WebhookCount(p, TRUE)
    \/ \E p \in Procs : WebhookCreate(p)

Spec == Init /\ [][Next]_vars

\* The handlers that write Settings records (tenant auto-creation by a
\* registration, lazy creation by a settings read, the settings update) and
\* the webhook that provisions the users the settings handlers admit.
NextSettings ==
    \/ \E p \in Procs, slug \in Slugs, body \in Bodies : RegisterStart(p, slug, body)
    \/ \E p \in Procs : RegisterCreateOrg(p)
    \/ \E p \in Procs : RegisterCheckPhone(p, TRUE)
    \/ \E p \in Procs : RegisterInsert(p)
    \/ \E p \in Procs, slug \in Slugs, clerk \in Callers : SettingsGetStart(p, slug, clerk)
    \/ \E p \in Procs : SettingsGetUser(p)
    \/ \E p \in Procs : SettingsGetFind(p)
    \/ \E p \in Procs : SettingsGetCreate(p)
    \/ \E p \in Procs, slug \in Slugs, clerk \in Callers : SettingsPutStart(p, slug, clerk)
    \/ \E p \in Procs, country \in SettingsCountryInputs : SettingsPutUser(p, country)
    \/ \E p \in Procs : SettingsPutUpsert(p)
    \/ \E p \in Procs, k \in Identities, verified \in BOOLEAN : WebhookStart(p, k, verified)
    \/ \E p \in Procs : WebhookCount(p, TRUE)
    \/ \E p \in Procs : WebhookCreate(p)

SpecSettings == Init /\ [][NextSettings]_vars

\* the handlers that write customers and the webhook, with lookups that
\* may throw
NextFaults ==
    \/ \E p \in Procs, slug \in Slugs, body \in Bodies : RegisterStart(p, slug, body)
    \/ \E p \in Procs : RegisterCreateOrg(p)
    \/ \E p \in Procs, dbOk \in BOOLEAN : RegisterCheckPhone(p, dbOk)
    \/ \E p \in Procs : RegisterInsert(p)
    \/ \E p \in Procs, slug \in Slugs, clerk \in Callers : AdminCreateStart(p, slug, clerk)
    \/ \E p \in Procs, body \in Bodies : AdminCreateUser(p, body)
    \/ \E p \in Procs, dbOk \in BOOLEAN : AdminCreateCheckPhone(p, dbOk)
    \/ \E p \in Procs : AdminCreateInsert(p)
    \/ \E p \in Procs, slug \in Slugs, clerk \in Callers : PutStart(p, slug, clerk)
    \/ \E p \in Procs : PutUser(p)
    \/ \E p \in Procs, cid \in CustomerIds, body \in Bodies : PutFind(p, cid, body)
    \/ \E p \in Procs, dbOk \in BOOLEAN : PutCheckPhone(p, dbOk)
    \/ \E p \in Procs : PutUpdate(p)
    \/ \E p \in Procs, k \in Identities, verified \in BOOLEAN : WebhookStart(p, k, verified)
    \/ \E p \in Procs, dbOk \in BOOLEAN : WebhookCount(p, dbOk)
    \/ \E p \in Procs : WebhookCreate(p)

SpecFaults == Init /\ [][NextFaults]_vars

(* ------------------------- library functions -------------------------- *)

Roles == {"SUPER_ADMIN", "MANAGER", "VIEWER"}

Capabilities == {"canManageUsers", "canManageSettings", "canCreateCustomers",
                 "canEditCustomers", "canDeleteCustomers", "canViewCustomers"}

CustomerCapabilities == {"canCreateCustomers", "canEditCustomers",
                         "canDeleteCustomers", "canViewCustomers"}

\* (variant: the table with manage-settings granted to MANAGER)
ROLE_PERMISSIONS_ManagerSettings ==
    [r \in Roles |->
        [a \in Capabilities |->
            CASE r = "SUPER_ADMIN" -> TRUE
              [] r = "MANAGER"     -> a \in CustomerCapabilities \cup {"canManageSettings"}
              [] OTHER             -> a = "canViewCustomers"]]

\* the capability table, role -> capability -> granted
ROLE_PERMISSIONS ==
    [r \in Roles |->
        [a \in Capabilities |->
            CASE r = "SUPER_ADMIN" -> TRUE
              [] r = "MANAGER"     -> a \in CustomerCapabilities
              [] OTHER             -> a = "canViewCustomers"]]

roleHasPermission(role, action) == ROLE_PERMISSIONS[role][action]

\* (variant: MANAGER ranked with SUPER_ADMIN)
roleHierarchyManagerTop == [r \in Roles |-> IF r = "VIEWER" THEN 1 ELSE 3]

roleHierarchy == [r \in Roles |-> CASE r = "SUPER_ADMIN" -> 3
                                    [] r = "MANAGER"     -> 2
                                    [] OTHER             -> 1]

roleIsAtLeast(firstRole, secondRole) == roleHierarchy[firstRole] >= roleHierarchy[secondRole]

\* withRBAC: getCurrentUser, then the organization, minimum-role and
\* required-action checks of the options given ("" when an option is absent)
withRBAC(clerk, minimumRole, requiredAction, organizationId) ==
    IF UserByClerkId(clerk) = {}
    THEN Response(401, "Authentication required")
    ELSE LET user == CHOOSE u \in UserByClerkId(clerk) : TRUE IN
         IF organizationId # "" /\ user.org # organizationId
         THEN Response(403, "Access denied: Invalid organization")
         ELSE IF minimumRole # "" /\ ~roleIsAtLeast(user.role, minimumRole)
         THEN Response(403, "Access denied: Minimum role " \o minimumRole \o " required")
         ELSE IF requiredAction # "" /\ ~roleHasPermission(user.role, requiredAction)
         THEN Response(403, "Access denied: Insufficient permissions")
         ELSE [Response(0, "") EXCEPT !.value = TRUE]

\* the store after the user.created event of k2 has followed those of
\* ProvisionedStore: k2 is the second user of "beta"
LibraryStore ==
    /\ organizations = {"acme", "beta"}
    /\ settings = [s \in Slugs |-> IF s = "acme" THEN DefaultCountry ELSE ""]
    /\ customers = {[id |-> 1, org |-> "beta", phone |-> PhoneE164,
                     consentGiven |-> TRUE, createdBy |-> NoIdentity,
                     updatedBy |-> NoIdentity]}
    /\ nextId = 2
    /\ users = {[clerk |-> "k1", org |-> "beta", email |-> "e1",
                 role |-> "SUPER_ADMIN", nth |-> 1],
                [clerk |-> "k2", org |-> "beta", email |-> "e2",
                 role |-> "VIEWER", nth |-> 2],
                [clerk |-> "k3", org |-> "acme", email |-> "e3",
                 role |-> "SUPER_ADMIN", nth |-> 1]}

PhoneGB == <<"0", "7", "1", "2", "3", " ", "4", "5", "6", "7", "8", "9">>

\* the phone and country arguments of a direct call
CallPhones == PhoneInputs \cup {PhoneGB}
CallCountries == CountryInputs \cup ValidCountries

\* the arguments of one direct call, drawn from the inputs
CallInputs ==
    {[NoArg EXCEPT !.slug = slug, !.clerk = clerk, !.cid = cid, !.phone = phone,
                   !.country = country, !.role = role, !.action = action,
                   !.minimumRole = minimumRole] :
        slug \in Slugs, clerk \in {"k1", "k2", NoIdentity}, cid \in {0, 1, 2},
        phone \in CallPhones, country \in CallCountries, role \in Roles,
        action \in Capabilities, minimumRole \in Roles}

InitLibrary ==
    /\ LibraryStore
    /\ pc = [p \in Procs |-> "idle"]
    /\ \E a \in CallInputs : arg = [p \in Procs |-> a]
    /\ loc = [p \in Procs |-> NoLoc]
    /\ out = NoResp
    /\ started = 0

\* what a direct call leaves alone: it returns a value and writes nothing
callFrame == <<storage, pc, arg, loc, started>>

RoleHasPermissionCall ==
    /\ out' = Emit("roleHasPermission",
                   [Response(0, "") EXCEPT
                        !.value = roleHasPermission(arg[1].role, arg[1].action)])
    /\ UNCHANGED callFrame

RoleIsAtLeastCall ==
    /\ out' = Emit("roleIsAtLeast",
                   [Response(0, "") EXCEPT
                        !.value = roleIsAtLeast(arg[1].role, arg[1].minimumRole)])
    /\ UNCHANGED callFrame

\* the role gates of the handlers, applied to a role
MayMutateCustomersCall ==
    /\ out' = Emit("MayMutateCustomers",
                   [Response(0, "") EXCEPT !.value = MayMutateCustomers(arg[1].role)])
    /\ UNCHANGED callFrame

MayManageSettingsCall ==
    /\ out' = Emit("MayManageSettings",
                   [Response(0, "") EXCEPT !.value = MayManageSettings(arg[1].role)])
    /\ UNCHANGED callFrame

WithRBACMinimumRoleCall ==
    /\ out' = Emit("withRBAC",
                   withRBAC(arg[1].clerk, arg[1].minimumRole, "", arg[1].slug))
    /\ UNCHANGED callFrame

WithRBACRequiredActionCall ==
    /\ out' = Emit("withRBAC",
                   withRBAC(arg[1].clerk, "", arg[1].action, arg[1].slug))
    /\ UNCHANGED callFrame

ValidateAndFormatPhoneCall ==
    /\ LET r == validateAndFormatPhone(arg[1].phone, arg[1].country) IN
       out' = Emit("validateAndFormatPhone",
                   [Response(0, r.error) EXCEPT !.value = r.isValid,
                                                !.phone = r.formatted])
    /\ UNCHANGED callFrame

CheckPhoneAvailabilityCall ==
    /\ LET r == checkPhoneAvailability(arg[1].phone, arg[1].slug, arg[1].cid, TRUE) IN
       out' = Emit("checkPhoneAvailability",
                   [Response(0, r.message) EXCEPT !.value = r.available,
                                                  !.ref = r.found,
                                                  !.queried = r.queried])
    /\ UNCHANGED callFrame

ValidatePhoneAndCheckAvailabilityCall ==
    /\ LET r == validatePhoneAndCheckAvailability(arg[1].phone, arg[1].country,
                                                  arg[1].slug, arg[1].cid, TRUE) IN
       out' = Emit("validatePhoneAndCheckAvailability",
                   [Response(0, r.error) EXCEPT
                        !.value = r.isValid /\ r.available = "true",
                        !.ref = r.found, !.queried = r.queried])
    /\ UNCHANGED callFrame

NextLibrary ==
    \/ RoleHasPermissionCall
    \/ RoleIsAtLeastCall
    \/ MayMutateCustomersCall
    \/ MayManageSettingsCall
    \/ WithRBACMinimumRoleCall
    \/ WithRBACRequiredActionCall
    \/ ValidateAndFormatPhoneCall
    \/ CheckPhoneAvailabilityCall
    \/ ValidatePhoneAndCheckAvailabilityCall

SpecLibrary == InitLibrary /\ [][NextLibrary]_vars

(* ------------------------------ properties ---------------------------- *)

\* slot p returns its response in this step
Returns(p) == pc[p] # "idle" /\ pc'[p] = "idle"

\* C1: in every reachable state no two stored customers of the same tenant
\* have the same phone.
C1_TenantPhoneUnique ==
    \A c1 \in customers : \A c2 \in customers :
        (c1.id # c2.id /\ c1.org = c2.org) => c1.phone # c2.phone

\* a tenant holds two customers and an insert of a taken number was refused
C1_Witness ==
    /\ \E c1 \in customers : \E c2 \in customers : c1.id # c2.id /\ c1.org = c2.org
    /\ out.status = 409

\* C2: a registration or admin create that passed the availability check and
\* whose insert hits the (tenant, phone) constraint is answered 409 "Phone
\* number already registered", stores nothing, and the pair stays stored once.
C2_ConflictOnInsert ==
    [][\A p \in Procs :
          (/\ pc[p] \in {"reg_insert", "ac_insert"}
           /\ Returns(p)
           /\ CustomerUniqueViolation(arg[p].slug, loc[p].formatted, 0))
          => /\ out'.status = 409
             /\ out'.error = "Phone number already registered"
             /\ Cardinality({c \in customers' : c.org = arg[p].slug
                                               /\ c.phone = loc[p].formatted}) = 1]_vars

\* an insert was refused with the conflict outcome while the number is stored
C2_Witness ==
    /\ out.op \in {"register", "create"}
    /\ out.status = 409
    /\ customers # {}

\* C3: a registration whose availability check finds the tenant+phone pair
\* stored is answered with the conflict status 409, names the existing
\* customer and stores nothing.
C3_DuplicateIsConflict ==
    [][\A p \in Procs :
          LET countryCode == OrElse(loc[p].orgCountry,
                                    OrElse(arg[p].country, DefaultCountry))
              v == validatePhoneAndCheckAvailability(arg[p].phone, countryCode,
                                                     arg[p].slug, 0, TRUE)
          IN (pc[p] = "reg_check" /\ pc'[p] # "reg_check" /\ v.found # 0)
             => /\ Returns(p)
                /\ out'.status = 409
                /\ out'.ref = v.found
                /\ customers' = customers]_vars

\* C4: an edit whose write violates the (tenant, phone) constraint is
\* answered 409 "Phone number already registered".
C4_EditConflictIs409 ==
    [][\A p \in Procs :
          (/\ pc[p] = "p_update"
           /\ Returns(p)
           /\ CustomerById(arg[p].cid) # {}
           /\ CustomerUniqueViolation(arg[p].slug, loc[p].formatted, arg[p].cid))
          => /\ out'.status = 409
             /\ out'.error = "Phone number already registered"]_vars

DetailSteps == {"g_user", "g_fetch", "p_user", "p_find", "p_check", "p_update",
                "d_user", "d_find", "d_delete"}

\* C5: no step of a detail, edit or delete request made by an internal user
\* changes a customer of another tenant, and such a request is answered 200
\* only for a customer of the user's own tenant.
C5_TenantIsolation ==
    [][\A p \in Procs : \A u \in UserByClerkId(arg[p].clerk) :
          (pc[p] \in DetailSteps /\ pc'[p] # pc[p])
          => /\ {c \in customers : c.org # u.org} = {c \in customers' : c.org # u.org}
             /\ out'.status = 200
                  => \A c \in customers : c.id = out'.ref => c.org = u.org]_vars

\* a detail, edit or delete request naming a stored customer of another
\* tenant was refused
C5_Witness ==
    /\ out.op \in {"get", "put", "delete"}
    /\ out.status = 403
    /\ \E c \in customers : c.id = out.ref

\* C6: the first user created under a tenant holds SUPER_ADMIN and the
\* second one VIEWER.
C6_FirstAdminSecondViewer ==
    \A u \in users :
        /\ u.nth = 1 => u.role = "SUPER_ADMIN"
        /\ u.nth = 2 => u.role = "VIEWER"

\* C7: in every tenant that has users exactly one of them received
\* SUPER_ADMIN and every other one VIEWER.
C7_ExactlyOneAdmin ==
    \A org \in Slugs :
        UsersOfOrganization(org) # {}
        => Cardinality({u \in UsersOfOrganization(org) : u.role = "SUPER_ADMIN"}) = 1

\* C8: an external identity never has two InternalUser records, and once a
\* verified delivery of its user.created event has run its insert it has
\* exactly one.
C8_WebhookIdempotent ==
    [][/\ \A k \in Identities : Cardinality({u \in users' : u.clerk = k}) <= 1
       /\ \A p \in Procs :
             (pc[p] = "w_create" /\ Returns(p))
             => Cardinality({u \in users' : u.clerk = arg[p].clerk}) = 1]_vars

\* a repeated delivery ran its insert and the identity's record was kept
C8_Witness ==
    /\ out.op = "webhook"
    /\ out.log = "Error creating internal user"
    /\ \E k \in Identities : Cardinality(UserByClerkId(k)) = 1

\* C9: a registration that created its tenant and then fails leaves no
\* tenant without a customer.
C9_NoOrphanTenant ==
    [][\A p \in Procs :
          (/\ pc[p] \in {"reg_check", "reg_insert"}
           /\ Returns(p)
           /\ loc[p].createdOrg
           /\ out'.status # 201)
          => \/ arg[p].slug \notin organizations'
             \/ \E c \in customers' : c.org = arg[p].slug]_vars

\* C10: a registration with valid fields, phone "(555) 123-4567" and country
\* US under an unseen slug creates the tenant with default Settings, stores
\* the customer with phone "+15551234567" and answers 201 with the
\* first-customer flag.
C10_FirstRegistration ==
    [][\A p \in Procs :
          (/\ pc[p] \in {"reg_check", "reg_insert"}
           /\ Returns(p)
           /\ loc[p].createdOrg
           /\ arg[p].phone = PhoneParen
           /\ arg[p].country = "US")
          => /\ out'.status = 201
             /\ out'.first
             /\ settings'[arg[p].slug] = DefaultCountry
             /\ \E c \in customers' : /\ c.id = out'.ref
                                      /\ c.org = arg[p].slug
                                      /\ c.phone = PhoneE164]_vars

\* C11: a registration, admin create, edit or availability check is refused
\* as "already registered" only when a customer of the request's own tenant
\* holds the number; customers of other tenants never cause the refusal.
C11_OtherTenantsNeverReject ==
    [][\A p \in Procs :
          /\ (/\ pc[p] \in {"reg_check", "ac_check", "p_check", "vp_check"}
              /\ Returns(p)
              /\ out'.error = "Phone number already registered to")
             => \E c \in customers : c.id = out'.ref /\ c.org = arg[p].slug
          /\ (/\ pc[p] \in {"reg_insert", "ac_insert"}
              /\ Returns(p)
              /\ out'.status = 409)
             => \E c \in customers : /\ c.org = arg[p].slug
                                     /\ c.phone = loc[p].formatted]_vars

\* a number one tenant holds was just stored for another tenant too
C11_Witness ==
    /\ out.op \in {"register", "create"}
    /\ out.status = 201
    /\ \E c1 \in customers : \E c2 \in customers :
          c1.org # c2.org /\ c1.phone = c2.phone /\ c2.id = out.ref

MutationSteps == {"ac_user", "ac_check", "ac_insert", "p_user", "p_find",
                  "p_check", "p_update", "d_user", "d_find", "d_delete"}

\* C12: a create, edit or delete request of an internal user holding VIEWER
\* is answered 403 at the role gate and no step of it changes the customers.
C12_ViewerCannotMutate ==
    [][\A p \in Procs : \A u \in UserByClerkId(arg[p].clerk) :
          (u.role = "VIEWER" /\ pc[p] \in MutationSteps /\ pc'[p] # pc[p])
          => /\ customers' = customers
             /\ pc[p] \in {"ac_user", "p_user", "d_user"}
             /\ Returns(p)
             /\ out'.status = 403]_vars

\* a VIEWER's delete was refused while the tenant holds a customer
C12_Witness ==
    /\ out.op = "delete"
    /\ out.error = "Insufficient permissions to delete customers"
    /\ \E u \in users : u.role = "VIEWER" /\ \E c \in customers : c.org = u.org

\* C15: every stored Settings country is the display name of a registry
\* entry, and a settings update naming an unregistered country is rejected
\* without changing the stored value.
C15_SettingsCountryRegistered ==
    [][/\ \A org \in Slugs :
             /\ settings[org] # "" => \E c \in COUNTRIES : c.name = settings[org]
             /\ settings'[org] # "" => \E c \in COUNTRIES : c.name = settings'[org]
       /\ \A p \in Procs :
             (pc[p] = "sp_upsert" /\ Returns(p))
             => \E c \in COUNTRIES : c.name = out'.data
       /\ (out'.op = "settings_put" /\ out'.status # 200) => settings' = settings]_vars

\* an update naming an unregistered country was refused, and a tenant
\* holds a country an update wrote
C15_Witness ==
    /\ out.op = "settings_put"
    /\ out.error = "Invalid country selected"
    /\ \E org \in Slugs : settings[org] = "United Kingdom"

\* C16: a settings read that got past the role gate returns 200 with the
\* tenant's Settings record, which it has created with the default country
\* when the tenant had none, also when two first reads run concurrently.
C16_LazySettingsRead ==
    [][\A p \in Procs :
          (pc[p] \in {"sg_find", "sg_create"} /\ Returns(p))
          => /\ out'.status = 200
             /\ settings'[arg[p].slug] # ""
             /\ out'.data = settings'[arg[p].slug]
             /\ settings[arg[p].slug] = "" => settings'[arg[p].slug] = DefaultCountry]_vars


(* C13: the capability table grants VIEWER only view-customer, grants MANAGER
   exactly create-, edit-, delete- and view-customer, and grants SUPER_ADMIN
   all six capabilities; so manage-users and manage-settings are held by
   SUPER_ADMIN only.  Every roleHasPermission call returns the answer of
   that table. *)
C13_CapabilityTable ==
    out.op = "roleHasPermission" =>
        /\ arg[1].role = "VIEWER" => (out.value <=> arg[1].action = "canViewCustomers")
        /\ arg[1].role = "MANAGER" =>
               (out.value <=> arg[1].action \in {"canCreateCustomers", "canEditCustomers",
                                                 "canDeleteCustomers", "canViewCustomers"})
        /\ arg[1].role = "SUPER_ADMIN" => out.value
        /\ arg[1].action \in {"canManageUsers", "canManageSettings"} =>
               (out.value <=> arg[1].role = "SUPER_ADMIN")

C13_Witness ==
    /\ out.op = "roleHasPermission"
    /\ arg[1].role = "MANAGER"
    /\ arg[1].action = "canManageSettings"
    /\ ~out.value


(* C14: every role-based authorization denial is the same generic
   insufficient-permission outcome: a caller who belongs to the organization
   and is denied by withRBAC for lack of role gets one error text, whatever
   capability or minimum role the check asked for. *)
C14_DenialsGeneric ==
    (/\ out.op = "withRBAC"
     /\ out.status = 403
     /\ \E u \in UserByClerkId(arg[1].clerk) : u.org = arg[1].slug)
        => out.error = "Access denied: Insufficient permissions"


\* canonical form: a + followed by a non-zero digit and 1 to 14 further digits
IsCanonicalForm(s) ==
    /\ Len(s) \in 3..16
    /\ Head(s) = "+"
    /\ s[2] \in {"1", "2", "3", "4", "5", "6", "7", "8", "9"}
    /\ \A i \in 3..Len(s) : s[i] \in {"0", "1", "2", "3", "4", "5", "6", "7", "8", "9"}

(* C17: a string that is not in canonical form is never used in a storage
   lookup: checkPhoneAvailability on such a string reports unavailable with
   the format-error reason and does not query, and
   validatePhoneAndCheckAvailability returns the format failure without
   querying when formatting fails. *)
C17_NoLookupOnNonCanonical ==
    /\ (out.op = "checkPhoneAvailability" /\ ~IsCanonicalForm(arg[1].phone)) =>
           /\ ~out.queried
           /\ ~out.value
           /\ out.error = "Phone number must be in E.164 format"
    /\ out.op = "validatePhoneAndCheckAvailability" =>
           LET validation == validateAndFormatPhone(arg[1].phone, arg[1].country) IN
           IF validation.isValid
           THEN out.queried => IsCanonicalForm(validation.formatted)
           ELSE ~out.queried /\ ~out.value /\ out.error = validation.error

C17_Witness ==
    /\ out.op = "checkPhoneAvailability"
    /\ arg[1].phone = PhoneParen
    /\ ~out.queried
    /\ out.error = "Phone number must be in E.164 format"


(* C18: in every reachable state the phone of every stored customer is in
   canonical form, after any sequence of public registrations, admin
   creates and edits. *)
C18_StoredPhonesCanonical ==
    \A c \in customers : IsCanonicalForm(c.phone)

\* a customer whose phone was typed as "202.555.0123" is stored
C18_Witness ==
    \E c \in customers :
        /\ c.phone = <<"+", "1", "2", "0", "2", "5", "5", "5", "0", "1", "2", "3">>
        /\ out.status \in {200, 201}
        /\ out.ref = c.id


(* C19: a customer created by public registration has no creator; a customer
   created by an internal user has that user as creator; and every
   successful edit sets the customer's updater to the internal user who
   made the edit. *)
C19_CreatorAndUpdater ==
    [][\A p \in Procs :
          /\ (pc[p] = "reg_insert" /\ Returns(p) /\ out'.status = 201) =>
                 \E c \in customers' \ customers :
                     c.id = out'.ref /\ c.createdBy = NoIdentity
          /\ (pc[p] = "ac_insert" /\ Returns(p) /\ out'.status = 201) =>
                 \E c \in customers' \ customers :
                     /\ c.id = out'.ref
                     /\ c.createdBy = arg[p].clerk
                     /\ UserByClerkId(arg[p].clerk) # {}
          /\ (pc[p] = "p_update" /\ Returns(p) /\ out'.status = 200) =>
                 \E c \in customers' :
                     /\ c.id = arg[p].cid
                     /\ c.updatedBy = arg[p].clerk
                     /\ UserByClerkId(arg[p].clerk) # {}]_vars

\* a customer who registered in public was edited by k1, and k1 created another
C19_Witness ==
    /\ out.op = "put"
    /\ out.status = 200
    /\ \E c \in customers :
           c.id = out.ref /\ c.createdBy = NoIdentity /\ c.updatedBy = "k1"
    /\ \E c \in customers : c.createdBy = "k1"


(* C20: an internal user who may create customers can create one with
   consentGiven = false, so the admin create of such a user is never refused
   by the form validation (of the enumerated bodies only the consent flag
   can fail it) and stores the flag as sent; a public registration refused
   by the form validation stores nothing. *)
C20_AdminMayStoreNoConsent ==
    [][\A p \in Procs :
          /\ (/\ pc[p] = "ac_user"
              /\ Returns(p)
              /\ UserAdmitted(p)
              /\ MayMutateCustomers(RoleOf(arg[p].clerk)))
                 => out'.error # "Validation failed"
          /\ (pc[p] = "ac_insert" /\ Returns(p) /\ out'.status = 201) =>
                 \E c \in customers' \ customers :
                     c.consentGiven = arg[p].consentGiven
          /\ (out'.op = "register" /\ out'.error = "Validation failed") =>
                 customers' = customers]_vars


(* C21: given an exclude-record identifier, checkPhoneAvailability reports a
   canonical phone unavailable if and only if some customer of the same
   tenant other than the excluded one holds it; so the number a customer
   already has is available to an edit of that customer. *)
C21_ExcludedRecordNeverCollides ==
    (out.op = "checkPhoneAvailability" /\ IsCanonicalForm(arg[1].phone)) =>
        (~out.value <=>
            \E c \in customers :
                /\ c.org = arg[1].slug
                /\ c.phone = arg[1].phone
                /\ (arg[1].cid # 0 => c.id # arg[1].cid))

\* customer 1 of "beta" holds the number and is the excluded record
C21_Witness ==
    /\ out.op = "checkPhoneAvailability"
    /\ arg[1].cid = 1
    /\ arg[1].slug = "beta"
    /\ \E c \in customers : c.id = 1 /\ c.org = "beta" /\ c.phone = arg[1].phone
    /\ out.value


(* C22: for every supported country code and every input the formatter
   accepts, formatting the returned canonical form again with the same
   country code is accepted and returns the identical canonical form. *)
C22_FormatIdempotent ==
    (out.op = "validateAndFormatPhone" /\ out.value) =>
        LET again == validateAndFormatPhone(out.phone, arg[1].country) IN
        /\ IsCanonicalForm(out.phone)
        /\ again.isValid
        /\ again.formatted = out.phone

\* a national GB number with its trunk prefix was accepted and formatted
C22_Witness ==
    /\ out.op = "validateAndFormatPhone"
    /\ arg[1].phone = PhoneGB
    /\ arg[1].country = "GB"
    /\ out.value
    /\ out.phone = <<"+", "4", "4", "7", "1", "2", "3", "4", "5", "6", "7", "8", "9">>


(* C24: roleIsAtLeast is a total order on the three roles with
   SUPER_ADMIN > MANAGER > VIEWER: it is reflexive, antisymmetric and
   transitive, and any two roles are comparable. *)
C24_RoleTotalOrder ==
    out.op = "roleIsAtLeast" =>
        LET a == arg[1].role
            b == arg[1].minimumRole
        IN /\ out.value <=>
                  \/ a = "SUPER_ADMIN"
                  \/ a = "MANAGER" /\ b # "SUPER_ADMIN"
                  \/ a = "VIEWER" /\ b = "VIEWER"
           /\ a = b => out.value
           /\ (out.value /\ roleIsAtLeast(b, a)) => a = b
           /\ out.value \/ roleIsAtLeast(b, a)
           /\ \A c \in Roles : (out.value /\ roleIsAtLeast(b, c)) => roleIsAtLeast(a, c)

C24_Witness ==
    /\ out.op = "roleIsAtLeast"
    /\ arg[1].role = "MANAGER"
    /\ arg[1].minimumRole = "SUPER_ADMIN"
    /\ ~out.value


(* C28: the role checks written into the handlers decide as the capability
   table does: the create, edit and delete handlers admit a role iff
   ROLE_PERMISSIONS grants it canCreateCustomers, canEditCustomers and
   canDeleteCustomers respectively, and the settings handlers admit it iff
   the table grants canManageSettings. *)
C28_HandlersFollowTable ==
    /\ out.op = "MayMutateCustomers" =>
           \A a \in {"canCreateCustomers", "canEditCustomers", "canDeleteCustomers"} :
               out.value <=> ROLE_PERMISSIONS[arg[1].role][a]
    /\ out.op = "MayManageSettings" =>
           (out.value <=> ROLE_PERMISSIONS[arg[1].role]["canManageSettings"])

C28_Witness ==
    /\ out.op = "MayManageSettings"
    /\ arg[1].role = "MANAGER"
    /\ ~out.value
    /\ MayMutateCustomers(arg[1].role)


(* C23: an edit or delete whose customer no longer exists when its write
   executes, because a concurrent delete removed it after the handler's
   existence check, is answered 404 and not with a generic internal error. *)
C23_VanishedCustomerIs404 ==
    [][\A p \in Procs :
          (/\ pc[p] \in {"p_update", "d_delete"}
           /\ Returns(p)
           /\ CustomerById(arg[p].cid) = {})
              => out'.status = 404]_vars


(* C27: when two public registrations run concurrently under the same
   brand-new slug, neither is rejected because the other created the tenant
   first: the one that finds the slug taken at its createOrganization goes
   on to its phone check under the single tenant of that slug. *)
C27_LoserOfTenantCreationProceeds ==
    [][\A p \in Procs :
          (/\ pc[p] = "reg_createorg"
           /\ pc'[p] # pc[p]
           /\ arg[p].slug \in organizations)
              => /\ pc'[p] = "reg_check"
                 /\ organizations' = organizations]_vars


(* C30: the lazy creation of default Settings by a settings read never
   replaces or reverts a country written by a settings update: a stored
   country changes only by a successful update, which stores the country it
   was sent, and a read that answers 200 returns the stored country; so
   after an update to c every later read returns c until the next
   successful update. *)
C30_ReadNeverRevertsUpdate ==
    [][/\ \A org \in Slugs :
             (settings[org] # "" /\ settings'[org] # settings[org]) =>
                 \E p \in Procs : /\ pc[p] = "sp_upsert"
                                   /\ Returns(p)
                                   /\ arg[p].slug = org
                                   /\ out'.status = 200
       /\ \A p \in Procs :
             /\ (pc[p] = "sp_upsert" /\ Returns(p) /\ out'.status = 200) =>
                    settings'[arg[p].slug] = arg[p].country
             /\ (pc[p] \in {"sg_find", "sg_create"} /\ Returns(p) /\ out'.status = 200) =>
                    /\ out'.data = settings'[arg[p].slug]
                    /\ settings[arg[p].slug] # "" => settings' = settings]_vars

\* a read that found no record lost to an update: its creation was refused
\* and the updated country is still stored
C30_Witness ==
    /\ out.op = "settings_get"
    /\ out.status = 500
    /\ settings["beta"] = "United Kingdom"


(* C25: when the storage lookup inside the availability checker fails, the
   checker reports the phone unavailable, never available: the request whose
   lookup failed is answered 400 at that step and writes nothing, and no
   registration, admin create or edit stands before its write with a failed
   lookup behind it. *)
C25_FailedLookupNeverProceeds ==
    /\ \A p \in Procs :
           pc[p] \in {"reg_insert", "ac_insert", "p_update"} => ~loc[p].lookupFailed
    /\ out.error = "Error checking phone availability" => out.status = 400

\* a registration whose lookup threw was refused
C25_Witness ==
    /\ out.op = "register"
    /\ out.status = 400
    /\ out.error = "Error checking phone availability"

(* C26: in every reachable state every tenant that has an internal user has
   one with role SUPER_ADMIN, also when the user count made during
   provisioning fails. *)
C26_EveryStaffedTenantHasAdmin ==
    \A org \in Slugs :
        UsersOfOrganization(org) # {} =>
            \E u \in UsersOfOrganization(org) : u.role = "SUPER_ADMIN"

====
